---------------------------- MODULE Spec2Model ----------------------------
(***************************************************************************)
(* Model of src/main.ts of sync_dns_to_wecom_docs: the module-level        *)
(* configuration check, the entrypoint, the DNS record normalizer          *)
(* (process_dns_records) and the sheet reconciler (process_wedocs).        *)
(* Strings are TLA+ strings; an action is the code that runs between two   *)
(* awaits, the merge loop of process_dns_records is stepped per iteration. *)
(***************************************************************************)
EXTENDS Integers, Sequences, FiniteSets, TLC

VARIABLES
    env,                      \* process.env: a function on the names that are set
    pc,                       \* position of the run
    exit_code,                \* status the process exited with, 0 while it runs
    responded,                \* res.empty() has been called
    calls,                    \* history of the external calls: <<api, phase>>
    sheet,                    \* the remote sheet: rows [record_id, name_texts, rdata]
    sheet0,                   \* the remote sheet as it was before the run
    next_row,                 \* number the remote sheet gives its next new row
    dns_records,              \* response.resources of shared_rrs_get
    enabled_records,          \* main.ts:85
    specified_type_records,   \* main.ts:88
    simple_record_data,       \* main.ts:91
    records_data,             \* main.ts:93, the merge loop's output
    idx,                      \* the merge loop's position in simple_record_data
    record_name_id_mappings,  \* main.ts:121
    records_to_insert,        \* main.ts:129
    records_to_update,        \* main.ts:145
    records_to_delete,        \* main.ts:161
    statistics                \* main.ts:114

vars == <<env, pc, exit_code, responded, calls, sheet, sheet0, next_row,
          dns_records, enabled_records, specified_type_records,
          simple_record_data, records_data, idx, record_name_id_mappings,
          records_to_insert, records_to_update, records_to_delete, statistics>>

---------------------------------------------------------------------------
(* Bounds of the model *)

\* longest raw record list handed to the normalizer on its own
MaxRecords == 3
\* longest DNS response in a whole run
MaxDns == 2
\* most rows in the sheet before a run
MaxRows == 2
\* most mandatory parameters that are unset or empty
MaxMissing == 1

---------------------------------------------------------------------------
(* Configuration, main.ts:9-14 *)

MANDATORY ==
    {"APPWRITE_ENDPOINT", "APPWRITE_FUNCTION_PROJECT_ID", "APPWRITE_DATABASE_ID",
     "APPWRITE_COLLECTION_ID", "ZDNS_API_HOST", "ZDNS_API_USERNAME",
     "ZDNS_API_PASSWORD", "CORP_ID", "SECRET", "DOC_ID", "SHEET_ID"}

\* a variant that takes only undefined for missing: "" passes
Falsy_UndefinedOnly(e, name) == name \notin DOMAIN e

\* !X of JavaScript for an environment variable: undefined or the empty string
Falsy(e, name) == name \notin DOMAIN e \/ e[name] = ""

\* the condition of the if at main.ts:11
ConfigMissing(e) == \E name \in MANDATORY : Falsy(e, name)

\* process.exit(-1): the status the operating system sees is the low byte
ExitStatus(code) == code % 256

\* const { ..., REMOVE_IRRELEVANT_RECORDS = 'false' } = process.env
REMOVE_IRRELEVANT_RECORDS(e) ==
    IF "REMOVE_IRRELEVANT_RECORDS" \in DOMAIN e
    THEN e["REMOVE_IRRELEVANT_RECORDS"] ELSE "false"

\* REMOVE_IRRELEVANT_RECORDS === 'true' || true
remove_irrelevant_records(e) == (REMOVE_IRRELEVANT_RECORDS(e) = "true") \/ TRUE

\* init_appwrite_client throws: development mode without APPWRITE_API_KEY
ClientInitThrows(e) ==
    /\ "NODE_ENV" \in DOMAIN e
    /\ e["NODE_ENV"] = "development"
    /\ Falsy(e, "APPWRITE_API_KEY")

\* the environments a process is started with
OPTIONAL_SETTINGS ==
    [APPWRITE_API_KEY : {"", "key"},
     NODE_ENV : {"", "development"},
     REMOVE_IRRELEVANT_RECORDS : {"", "true", "false"}]

\* an environment: the mandatory names in unset are absent, those in empty are "",
\* an optional name is absent when its setting is ""
MakeEnv(unset, empty, opt) ==
    LET names == (MANDATORY \ unset)
                 \cup {n \in {"APPWRITE_API_KEY", "NODE_ENV", "REMOVE_IRRELEVANT_RECORDS"} :
                          opt[n] # ""}
    IN [n \in names |->
           IF n \in MANDATORY THEN (IF n \in empty THEN "" ELSE "v") ELSE opt[n]]

\* the mandatory names that are unset or empty: at most MaxMissing of them
MissingSets == { m \in SUBSET MANDATORY : Cardinality(m) <= MaxMissing }

Environments ==
    UNION { { MakeEnv(m \ e, e, opt) : e \in SUBSET m, opt \in OPTIONAL_SETTINGS } :
              m \in MissingSets }

FullEnv == MakeEnv({}, {}, [APPWRITE_API_KEY |-> "", NODE_ENV |-> "",
                            REMOVE_IRRELEVANT_RECORDS |-> ""])

---------------------------------------------------------------------------
(* process_dns_records, main.ts:81-105 *)

ALLOWED_TYPES == {"CNAME", "A", "AAAA"}

Min(a, b) == IF a < b THEN a ELSE b
Max(a, b) == IF a > b THEN a ELSE b

\* String.prototype.substring(start, end): both clamped to [0, length], swapped
\* when start > end
substring(s, start, end) ==
    LET a == Min(Max(start, 0), Len(s))
        b == Min(Max(end, 0), Len(s))
    IN SubSeq(s, Min(a, b) + 1, Max(a, b))

\* record.name.substring(0, record.name.length - 1)
NameWithoutSuffix(name) == substring(name, 0, Len(name) - 1)

IsEnabled(record) == record.is_enable = "yes"

\* a variant that compares the type without regard to case
HasSpecifiedType_AnyCase(record) ==
    record.type \in ALLOWED_TYPES \cup {"cname", "a", "aaaa"}

HasSpecifiedType(record) == record.type \in ALLOWED_TYPES

SimpleRecord(record) == [name |-> NameWithoutSuffix(record.name), rdata |-> record.rdata]

\* records_data.find((r) => r.name === name): the first index, 0 when there is none
FindIndex(data, name) ==
    IF \E k \in 1..Len(data) : data[k].name = name
    THEN CHOOSE k \in 1..Len(data) :
            /\ data[k].name = name
            /\ \A j \in 1..(k - 1) : data[j].name # name
    ELSE 0

\* a variant that never looks for the name: every record is pushed
MergeRecord_AlwaysPushes(data, record) == Append(data, record)

\* a variant that drops a value equal to the entry's rdata
MergeRecord_SkipsRepeated(data, record) ==
    LET k == FindIndex(data, record.name)
    IN IF k # 0
       THEN IF data[k].rdata = record.rdata
            THEN data
            ELSE [data EXCEPT ![k].rdata = data[k].rdata \o "," \o record.rdata]
       ELSE Append(data, record)

\* one iteration of the for loop at main.ts:94-102
MergeRecord(data, record) ==
    LET k == FindIndex(data, record.name)
    IN IF k # 0
       THEN [data EXCEPT ![k].rdata = data[k].rdata \o "," \o record.rdata]
       ELSE Append(data, record)

RECURSIVE MergeAll(_, _)
MergeAll(data, rest) ==
    IF rest = <<>> THEN data ELSE MergeAll(MergeRecord(data, Head(rest)), Tail(rest))

process_dns_records(records) ==
    LET enabled == SelectSeq(records, IsEnabled)
        typed == SelectSeq(enabled, HasSpecifiedType)
        simple == [k \in 1..Len(typed) |-> SimpleRecord(typed[k])]
    IN MergeAll(<<>>, simple)


---------------------------------------------------------------------------
(* The inputs: DNS responses and sheets *)

RawRecord(name, type, rdata, is_enable) ==
    [name |-> name, type |-> type, rdata |-> rdata, is_enable |-> is_enable]

\* raw records handed to the normalizer on its own: <<name, rdata>>, with a name
\* that has no trailing dot, and <<type, is_enable>>, with a lower-case type, a
\* type outside the list and a disabled record
RawNameRdata == { <<"a.", "1">>, <<"a.", "2">>, <<"b.", "1">>, <<"ab", "2">> }
RawTypeEnable == { <<"A", "yes">>, <<"AAAA", "yes">>, <<"CNAME", "yes">>,
                   <<"cname", "yes">>, <<"MX", "yes">>, <<"A", "no">> }

RawRecords ==
    { RawRecord(n[1], t[1], n[2], t[2]) : n \in RawNameRdata, t \in RawTypeEnable }

SeqsUpTo(S, n) == UNION { [1..k -> S] : k \in 0..n }

\* the resources a DNS response of a whole run is made of
DnsUniverse ==
    { RawRecord("a.", "A", "1", "yes"),
      RawRecord("a.", "AAAA", "2", "yes"),
      RawRecord("b.", "A", "2", "no"),
      RawRecord("d.", "CNAME", "1", "yes"),
      RawRecord("constructor.", "A", "1", "yes") }

DnsResponses == SeqsUpTo(DnsUniverse, MaxDns)

\* record ids of the remote sheet
RowId(n) == "r" \o ToString(n)

\* the name field of an existing row: its text fragments (none, or one)
SheetNameTexts == { <<>>, <<"a">>, <<"c">> }

Sheets ==
    { [k \in 1..Len(f) |-> [record_id |-> RowId(k), name_texts |-> f[k], rdata |-> "9"]] :
        f \in SeqsUpTo(SheetNameTexts, MaxRows) }

---------------------------------------------------------------------------
(* process_wedocs, main.ts:112-168 *)

\* record.values[FIELD_DNS_NAME][0].text throws when a row has no text fragment
NameFieldReadThrows(rows) == \E k \in 1..Len(rows) : rows[k].name_texts = <<>>

RowName(row) == row.name_texts[1]

\* Object.fromEntries(res.map(...)): the own properties in insertion order; a
\* later entry with the same key overwrites the value and keeps the key's place
RECURSIVE NameIdMappings(_)
NameIdMappings(rows) ==
    IF rows = <<>> THEN <<>>
    ELSE LET init == NameIdMappings(SubSeq(rows, 1, Len(rows) - 1))
             row == rows[Len(rows)]
         IN IF \E k \in 1..Len(init) : init[k].name = RowName(row)
            THEN [k \in 1..Len(init) |->
                    IF init[k].name = RowName(row)
                    THEN [name |-> init[k].name, record_id |-> row.record_id]
                    ELSE init[k]]
            ELSE Append(init, [name |-> RowName(row), record_id |-> row.record_id])

\* property names a plain object inherits from Object.prototype
ObjectPrototypeKeys ==
    {"constructor", "toString", "toLocaleString", "valueOf", "hasOwnProperty",
     "isPrototypeOf", "propertyIsEnumerable", "__proto__", "__defineGetter__",
     "__defineSetter__", "__lookupGetter__", "__lookupSetter__"}

HasOwnProperty(mappings, name) == \E k \in 1..Len(mappings) : mappings[k].name = name

\* name in record_name_id_mappings: own and inherited properties
HasProperty(mappings, name) ==
    HasOwnProperty(mappings, name) \/ name \in ObjectPrototypeKeys

\* record_name_id_mappings[name]; an inherited member is no row's id
GetProperty(mappings, name) ==
    IF HasOwnProperty(mappings, name)
    THEN mappings[CHOOSE k \in 1..Len(mappings) : mappings[k].name = name].record_id
    ELSE "[inherited]"

\* Object.keys(record_name_id_mappings): the own keys in insertion order
OwnKeys(mappings) == [k \in 1..Len(mappings) |-> mappings[k].name]

\* dns_records_data.filter(({ name }) => !(name in record_name_id_mappings))
RecordsToInsert(data, mappings) ==
    SelectSeq(data, LAMBDA r : ~HasProperty(mappings, r.name))

\* a variant that tests own properties only, unlike the insert filter
RecordsToUpdate_OwnPropertiesOnly(data, mappings) ==
    SelectSeq(data, LAMBDA r : HasOwnProperty(mappings, r.name))

\* dns_records_data.filter(({ name }) => name in record_name_id_mappings)
RecordsToUpdate(data, mappings) ==
    SelectSeq(data, LAMBDA r : HasProperty(mappings, r.name))

\* Object.keys(...).filter((name) => !dns_record_names.includes(name))
RecordsToDelete(data, mappings) ==
    SelectSeq(OwnKeys(mappings), LAMBDA name : \A k \in 1..Len(data) : data[k].name # name)

\* the records of the add call: record_id is the name itself
AddPayload(to_insert) ==
    [k \in 1..Len(to_insert) |->
        [record_id |-> to_insert[k].name, name |-> to_insert[k].name,
         rdata |-> to_insert[k].rdata]]

\* the records of the update call: record_id is the mapped row id
UpdatePayload(to_update, mappings) ==
    [k \in 1..Len(to_update) |->
        [record_id |-> GetProperty(mappings, to_update[k].name),
         name |-> to_update[k].name, rdata |-> to_update[k].rdata]]

\* the record_ids of the del call
DelPayload(to_delete, mappings) ==
    { GetProperty(mappings, to_delete[k]) : k \in 1..Len(to_delete) }

\* the remote sheet after SmartSheet.Record.add: one new row per record, with an
\* id of the sheet's own
SheetAdd(rows, payload, first) ==
    rows \o [k \in 1..Len(payload) |->
                [record_id |-> RowId(first + k - 1),
                 name_texts |-> <<payload[k].name>>,
                 rdata |-> payload[k].rdata]]

\* the remote sheet after SmartSheet.Record.update: the rows named by record_id
\* get both fields rewritten
SheetUpdate(rows, payload) ==
    [k \in 1..Len(rows) |->
        IF \E j \in 1..Len(payload) : payload[j].record_id = rows[k].record_id
        THEN LET j == CHOOSE j \in 1..Len(payload) : payload[j].record_id = rows[k].record_id
             IN [record_id |-> rows[k].record_id,
                 name_texts |-> <<payload[j].name>>,
                 rdata |-> payload[j].rdata]
        ELSE rows[k]]

\* res.length of the update call: the records it reports
UpdatedCount(payload) == Len(payload)

\* the remote sheet after SmartSheet.Record.del
SheetDel(rows, ids) == SelectSeq(rows, LAMBDA row : row.record_id \notin ids)


---------------------------------------------------------------------------
(* The run *)

NoStatistics == [added |-> 0, updated |-> 0, deleted |-> 0]

AwaitStates == {"await_dns", "await_records", "await_add", "await_update", "await_del"}

\* the external call a run waits for
ApiOf(p) ==
    CASE p = "await_dns" -> "dns"
      [] p = "await_records" -> "records"
      [] p = "await_add" -> "add"
      [] p = "await_update" -> "update"
      [] p = "await_del" -> "del"

\* a call is issued
Issue(history, api) == Append(history, <<api, "start">>)

\* an awaited call resolves
Resolve(history, api) == Append(history, <<api, "end">>)

\* an awaited call rejects
Reject(history, api) == Append(history, <<api, "fail">>)

\* a variant without the await: <next> is issued before <done> has ended
IssueWithoutAwait(history, done, next) == Resolve(Issue(history, next), done)

\* await <done>; then <next> is issued
AwaitThenIssue(history, done, next) == Issue(Resolve(history, done), next)

Idle ==
    /\ exit_code = 0
    /\ responded = FALSE
    /\ dns_records = <<>>
    /\ enabled_records = <<>>
    /\ specified_type_records = <<>>
    /\ simple_record_data = <<>>
    /\ records_data = <<>>
    /\ idx = 0
    /\ record_name_id_mappings = <<>>
    /\ records_to_insert = <<>>
    /\ records_to_update = <<>>
    /\ records_to_delete = <<>>
    /\ statistics = NoStatistics

Init ==
    /\ env \in Environments
    /\ pc = "load"
    /\ calls = <<>>
    /\ sheet \in Sheets
    /\ sheet0 = sheet
    /\ next_row = Len(sheet) + 1
    /\ Idle

\* main.ts:9-14: the module's top level
LoadConfig ==
    /\ pc = "load"
    /\ IF ConfigMissing(env)
       THEN /\ pc' = "exited"
            /\ exit_code' = ExitStatus(-1)
       ELSE /\ pc' = "loaded"
            /\ UNCHANGED exit_code
    /\ UNCHANGED <<env, responded, calls, sheet, sheet0, next_row, dns_records,
                   enabled_records, specified_type_records, simple_record_data,
                   records_data, idx, record_name_id_mappings, records_to_insert,
                   records_to_update, records_to_delete, statistics>>

\* main.ts:170-178 and 69-71: the entrypoint up to its first await
Entrypoint ==
    /\ pc = "loaded"
    /\ IF ClientInitThrows(env)
       THEN /\ pc' = "failed"
            /\ UNCHANGED calls
       ELSE /\ pc' = "await_dns"
            /\ calls' = Issue(calls, "dns")
    /\ UNCHANGED <<env, exit_code, responded, sheet, sheet0, next_row, dns_records,
                   enabled_records, specified_type_records, simple_record_data,
                   records_data, idx, record_name_id_mappings, records_to_insert,
                   records_to_update, records_to_delete, statistics>>

\* main.ts:71-73: shared_rrs_get resolves
DnsReturns ==
    /\ pc = "await_dns"
    /\ \E response \in DnsResponses : dns_records' = response
    /\ calls' = Resolve(calls, "dns")
    /\ pc' = "filter_enabled"
    /\ UNCHANGED <<env, exit_code, responded, sheet, sheet0, next_row,
                   enabled_records, specified_type_records, simple_record_data,
                   records_data, idx, record_name_id_mappings, records_to_insert,
                   records_to_update, records_to_delete, statistics>>

\* a variant that catches the rejection and issues the call again
CallFails_Retries ==
    /\ pc \in AwaitStates
    /\ calls' = Issue(Reject(calls, ApiOf(pc)), ApiOf(pc))
    /\ UNCHANGED <<env, pc, exit_code, responded, sheet, sheet0, next_row, dns_records,
                   enabled_records, specified_type_records, simple_record_data,
                   records_data, idx, record_name_id_mappings, records_to_insert,
                   records_to_update, records_to_delete, statistics>>

\* an awaited call rejects: nothing catches it, the run ends
CallFails ==
    /\ pc \in AwaitStates
    /\ calls' = Reject(calls, ApiOf(pc))
    /\ pc' = "failed"
    /\ UNCHANGED <<env, exit_code, responded, sheet, sheet0, next_row, dns_records,
                   enabled_records, specified_type_records, simple_record_data,
                   records_data, idx, record_name_id_mappings, records_to_insert,
                   records_to_update, records_to_delete, statistics>>

\* main.ts:85
FilterEnabled ==
    /\ pc = "filter_enabled"
    /\ enabled_records' = SelectSeq(dns_records, IsEnabled)
    /\ pc' = "filter_type"
    /\ UNCHANGED <<env, exit_code, responded, calls, sheet, sheet0, next_row,
                   dns_records, specified_type_records, simple_record_data,
                   records_data, idx, record_name_id_mappings, records_to_insert,
                   records_to_update, records_to_delete, statistics>>

\* main.ts:88
FilterType ==
    /\ pc = "filter_type"
    /\ specified_type_records' = SelectSeq(enabled_records, HasSpecifiedType)
    /\ pc' = "map"
    /\ UNCHANGED <<env, exit_code, responded, calls, sheet, sheet0, next_row,
                   dns_records, enabled_records, simple_record_data,
                   records_data, idx, record_name_id_mappings, records_to_insert,
                   records_to_update, records_to_delete, statistics>>

\* main.ts:91-93
MapNames ==
    /\ pc = "map"
    /\ simple_record_data' =
          [k \in 1..Len(specified_type_records) |-> SimpleRecord(specified_type_records[k])]
    /\ records_data' = <<>>
    /\ idx' = 1
    /\ pc' = "merge"
    /\ UNCHANGED <<env, exit_code, responded, calls, sheet, sheet0, next_row,
                   dns_records, enabled_records, specified_type_records,
                   record_name_id_mappings, records_to_insert,
                   records_to_update, records_to_delete, statistics>>

\* main.ts:94-102: one iteration. records_data holds the objects of
\* simple_record_data themselves, so a merge also rewrites the rdata of the
\* name's first element there
MergeIteration ==
    /\ pc = "merge"
    /\ idx <= Len(simple_record_data)
    /\ LET record == simple_record_data[idx]
           merged == MergeRecord(records_data, record)
           k == FindIndex(records_data, record.name)
           first == FindIndex(simple_record_data, record.name)
       IN /\ records_data' = merged
          /\ simple_record_data' =
                IF k # 0
                THEN [simple_record_data EXCEPT ![first].rdata = merged[k].rdata]
                ELSE simple_record_data
    /\ idx' = idx + 1
    /\ UNCHANGED <<env, pc, exit_code, responded, calls, sheet, sheet0, next_row,
                   dns_records, enabled_records, specified_type_records,
                   record_name_id_mappings, records_to_insert,
                   records_to_update, records_to_delete, statistics>>

\* main.ts:103-104, 179-182, 112-118: the loop is over, process_dns_records
\* returns and process_wedocs asks for the sheet's rows
ReturnRecords ==
    /\ pc = "merge"
    /\ idx > Len(simple_record_data)
    /\ statistics' = NoStatistics
    /\ calls' = Issue(calls, "records")
    /\ pc' = "await_records"
    /\ UNCHANGED <<env, exit_code, responded, sheet, sheet0, next_row,
                   dns_records, enabled_records, specified_type_records,
                   simple_record_data, records_data, idx, record_name_id_mappings,
                   records_to_insert, records_to_update, records_to_delete>>

\* main.ts:118-139: the rows arrive; the mapping and the insert set are computed
\* and the add call is issued
RecordsReturn ==
    /\ pc = "await_records"
    /\ IF NameFieldReadThrows(sheet)
       THEN /\ calls' = Resolve(calls, "records")
            /\ pc' = "failed"
            /\ UNCHANGED <<record_name_id_mappings, records_to_insert>>
       ELSE /\ record_name_id_mappings' = NameIdMappings(sheet)
            /\ records_to_insert' = RecordsToInsert(records_data, NameIdMappings(sheet))
            /\ calls' = AwaitThenIssue(calls, "records", "add")
            /\ pc' = "await_add"
    /\ UNCHANGED <<env, exit_code, responded, sheet, sheet0, next_row,
                   dns_records, enabled_records, specified_type_records,
                   simple_record_data, records_data, idx,
                   records_to_update, records_to_delete, statistics>>

\* main.ts:139-155: the add call resolves; the update set is computed and the
\* update call is issued
AddReturns ==
    /\ pc = "await_add"
    /\ sheet' = SheetAdd(sheet, AddPayload(records_to_insert), next_row)
    /\ next_row' = next_row + Len(records_to_insert)
    /\ statistics' = [statistics EXCEPT !.added = Len(AddPayload(records_to_insert))]
    /\ records_to_update' = RecordsToUpdate(records_data, record_name_id_mappings)
    /\ calls' = AwaitThenIssue(calls, "add", "update")
    /\ pc' = "await_update"
    /\ UNCHANGED <<env, exit_code, responded, sheet0,
                   dns_records, enabled_records, specified_type_records,
                   simple_record_data, records_data, idx, record_name_id_mappings,
                   records_to_insert, records_to_delete>>

\* main.ts:155-163: the update call resolves; with deletions on, the delete set
\* is computed and the del call is issued, otherwise the run ends
UpdateReturns ==
    /\ pc = "await_update"
    /\ sheet' = SheetUpdate(sheet, UpdatePayload(records_to_update, record_name_id_mappings))
    /\ statistics' =
          [statistics EXCEPT !.updated =
              UpdatedCount(UpdatePayload(records_to_update, record_name_id_mappings))]
    /\ IF remove_irrelevant_records(env)
       THEN /\ records_to_delete' = RecordsToDelete(records_data, record_name_id_mappings)
            /\ calls' = AwaitThenIssue(calls, "update", "del")
            /\ pc' = "await_del"
            /\ UNCHANGED responded
       ELSE /\ calls' = Resolve(calls, "update")
            /\ pc' = "done"
            /\ responded' = TRUE
            /\ UNCHANGED records_to_delete
    /\ UNCHANGED <<env, exit_code, sheet0, next_row,
                   dns_records, enabled_records, specified_type_records,
                   simple_record_data, records_data, idx, record_name_id_mappings,
                   records_to_insert, records_to_update>>

\* main.ts:163-167, 182-189: the del call resolves; process_wedocs returns and
\* the entrypoint answers res.empty()
DelReturns ==
    /\ pc = "await_del"
    /\ sheet' = SheetDel(sheet, DelPayload(records_to_delete, record_name_id_mappings))
    /\ statistics' = [statistics EXCEPT !.deleted = Len(records_to_delete)]
    /\ calls' = Resolve(calls, "del")
    /\ pc' = "done"
    /\ responded' = TRUE
    /\ UNCHANGED <<env, exit_code, sheet0, next_row,
                   dns_records, enabled_records, specified_type_records,
                   simple_record_data, records_data, idx, record_name_id_mappings,
                   records_to_insert, records_to_update, records_to_delete>>

Next ==
    \/ LoadConfig
    \/ Entrypoint
    \/ DnsReturns
    \/ CallFails
    \/ FilterEnabled
    \/ FilterType
    \/ MapNames
    \/ MergeIteration
    \/ ReturnRecords
    \/ RecordsReturn
    \/ AddReturns
    \/ UpdateReturns
    \/ DelReturns

Spec == Init /\ [][Next]_vars

(* The normalizer on its own: process_dns_records applied to any raw list *)

InitNormalize ==
    /\ env = FullEnv
    /\ pc = "filter_enabled"
    /\ calls = << <<"dns", "start">>, <<"dns", "end">> >>
    /\ sheet = <<>>
    /\ sheet0 = sheet
    /\ next_row = 1
    /\ exit_code = 0
    /\ responded = FALSE
    /\ dns_records \in SeqsUpTo(RawRecords, MaxRecords)
    /\ enabled_records = <<>>
    /\ specified_type_records = <<>>
    /\ simple_record_data = <<>>
    /\ records_data = <<>>
    /\ idx = 0
    /\ record_name_id_mappings = <<>>
    /\ records_to_insert = <<>>
    /\ records_to_update = <<>>
    /\ records_to_delete = <<>>
    /\ statistics = NoStatistics

NextNormalize ==
    \/ FilterEnabled
    \/ FilterType
    \/ MapNames
    \/ MergeIteration
    \/ ReturnRecords

SpecNormalize == InitNormalize /\ [][NextNormalize]_vars


---------------------------------------------------------------------------
(* Properties of process_dns_records, checked under SpecNormalize *)

\* the records the two filters keep, stated from the raw list
KeptRecords(records) ==
    SelectSeq(records, LAMBDA r : r.is_enable = "yes" /\ r.type \in {"CNAME", "A", "AAAA"})

\* the names of a list in order of first appearance
RECURSIVE FirstSeen(_)
FirstSeen(names) ==
    IF names = <<>> THEN <<>>
    ELSE LET init == FirstSeen(SubSeq(names, 1, Len(names) - 1))
             last == names[Len(names)]
         IN IF \E k \in 1..Len(init) : init[k] = last THEN init ELSE Append(init, last)

RECURSIVE JoinComma(_)
JoinComma(values) ==
    IF Len(values) = 1 THEN values[1]
    ELSE JoinComma(SubSeq(values, 1, Len(values) - 1)) \o "," \o values[Len(values)]

RECURSIVE SplitComma(_)
SplitComma(s) ==
    IF \E k \in 1..Len(s) : SubSeq(s, k, k) = ","
    THEN LET k == CHOOSE k \in 1..Len(s) :
                     /\ SubSeq(s, k, k) = ","
                     /\ \A j \in 1..(k - 1) : SubSeq(s, j, j) # ","
         IN <<SubSeq(s, 1, k - 1)>> \o SplitComma(SubSeq(s, k + 1, Len(s)))
    ELSE <<s>>

\* the rdata values, in order, of the records of a list whose mapped name is name
RdataOfName(records, name) ==
    LET same == SelectSeq(records, LAMBDA r : NameWithoutSuffix(r.name) = name)
    IN [k \in 1..Len(same) |-> same[k].rdata]

\* the kept records the merge loop has gone through
MergedSoFar ==
    IF pc = "merge" THEN SubSeq(KeptRecords(dns_records), 1, idx - 1)
    ELSE IF pc = "await_records" THEN KeptRecords(dns_records)
    ELSE <<>>

\* C3: the merge loop's output never holds two entries of equal name, after every
\* iteration and at the return
C3_NamesUnique ==
    \A j \in 1..Len(records_data) : \A k \in 1..Len(records_data) :
        j # k => records_data[j].name # records_data[k].name

\* three records went through the loop and two of them were merged
C3_Witness ==
    /\ pc = "merge"
    /\ idx = Len(simple_record_data) + 1
    /\ Len(simple_record_data) = Len(records_data) + 1
    /\ Len(records_data) > 1

\* C4: the output lists the distinct (mapped) names in order of first appearance
\* among the kept records, and each entry's rdata is the comma-joined rdata of
\* the kept records of that name, in input order, repeated values included;
\* after every iteration for the records gone through, and at the return
C4_FirstSeenOrderAndJoin ==
    (pc \in {"merge", "await_records"}) =>
        LET done == MergedSoFar
            names == FirstSeen([k \in 1..Len(done) |-> NameWithoutSuffix(done[k].name)])
        IN /\ Len(records_data) = Len(names)
           /\ \A k \in 1..Len(names) :
                 /\ records_data[k].name = names[k]
                 /\ records_data[k].rdata = JoinComma(RdataOfName(done, names[k]))

\* a.=1, b.=1, a.=1 returned as a with "1,1" followed by b
C4_Witness ==
    /\ pc = "await_records"
    /\ Len(dns_records) > Len(records_data)
    /\ Len(records_data) > 1
    /\ records_data[1].rdata = "1,1"

\* C5: at the return, a (mapped) name is in the output iff some raw record of that
\* name has is_enable exactly "yes" and a type exactly CNAME, A or AAAA, and the
\* rdata values of the output are those of these records and no others
C5_FilterExact ==
    (pc = "await_records") =>
        LET included(r) == r.is_enable = "yes" /\ r.type \in {"CNAME", "A", "AAAA"}
            raw == { dns_records[k] : k \in 1..Len(dns_records) }
            out == { records_data[k] : k \in 1..Len(records_data) }
            count(seq, v) == Cardinality({ k \in 1..Len(seq) : seq[k] = v })
        IN /\ \A n \in { NameWithoutSuffix(r.name) : r \in raw } \cup { o.name : o \in out } :
                 (\E o \in out : o.name = n)
                    <=> (\E r \in raw : included(r) /\ NameWithoutSuffix(r.name) = n)
           /\ \A o \in out : \A v \in { r.rdata : r \in raw } :
                 count(SplitComma(o.rdata), v) =
                    Cardinality({ k \in 1..Len(dns_records) :
                                    /\ included(dns_records[k])
                                    /\ NameWithoutSuffix(dns_records[k].name) = o.name
                                    /\ dns_records[k].rdata = v })

\* a list with a kept record, an enabled record of type cname and a disabled one
C5_Witness ==
    /\ pc = "await_records"
    /\ Len(records_data) = 1
    /\ \E k \in 1..Len(dns_records) :
          dns_records[k].type = "cname" /\ dns_records[k].is_enable = "yes"
    /\ \E k \in 1..Len(dns_records) : dns_records[k].is_enable = "no"

\* the name without one trailing ".", a name without a trailing dot unchanged
StripTrailingDot(name) ==
    IF Len(name) > 0 /\ SubSeq(name, Len(name), Len(name)) = "."
    THEN SubSeq(name, 1, Len(name) - 1)
    ELSE name

\* C6: the mapped name is the raw name less exactly one trailing ".", and the raw
\* name itself when it has no trailing dot
C6_StripsOnlyTrailingDot ==
    (pc = "merge") =>
        \A k \in 1..Len(specified_type_records) :
            simple_record_data[k].name = StripTrailingDot(specified_type_records[k].name)

---------------------------------------------------------------------------
(* Properties of the run, checked under Spec *)

Eleven ==
    {"APPWRITE_ENDPOINT", "APPWRITE_FUNCTION_PROJECT_ID", "APPWRITE_DATABASE_ID",
     "APPWRITE_COLLECTION_ID", "ZDNS_API_HOST", "ZDNS_API_USERNAME",
     "ZDNS_API_PASSWORD", "CORP_ID", "SECRET", "DOC_ID", "SHEET_ID"}

SomeMandatoryAbsent == \E n \in Eleven : n \notin DOMAIN env \/ env[n] = ""

Issued(api) == \E k \in 1..Len(calls) : calls[k] = <<api, "start">>

LastCall == IF calls = <<>> THEN <<"none", "none">> ELSE calls[Len(calls)]

\* C1: once the update call is issued, no record is in both the insert set and the
\* update set, and every normalized record is in exactly one of them
C1_InsertUpdatePartition ==
    Issued("update") =>
        /\ \A j \in 1..Len(records_to_insert) : \A k \in 1..Len(records_to_update) :
              records_to_insert[j].name # records_to_update[k].name
        /\ Len(records_to_insert) + Len(records_to_update) = Len(records_data)
        /\ \A k \in 1..Len(records_data) :
              (\E j \in 1..Len(records_to_insert) : records_to_insert[j] = records_data[k])
                 # (\E j \in 1..Len(records_to_update) : records_to_update[j] = records_data[k])

\* a run that sends a record in the add call and another in the update call
C1_Witness ==
    /\ Issued("update")
    /\ records_to_insert # <<>>
    /\ records_to_update # <<>>

\* C2: with deletions not enabled (REMOVE_IRRELEVANT_RECORDS other than "true"),
\* statistics.deleted stays 0 and no del call is issued
C2_NoDeleteWhenDisabled ==
    ("REMOVE_IRRELEVANT_RECORDS" \notin DOMAIN env \/ env["REMOVE_IRRELEVANT_RECORDS"] # "true")
        => (statistics.deleted = 0 /\ ~Issued("del"))

\* C7: with a mandatory parameter absent or empty the process exits with a
\* non-zero status and no call is ever issued; with all eleven set the loader
\* never exits, APPWRITE_API_KEY set or not
C7_ConfigGate ==
    /\ SomeMandatoryAbsent =>
          /\ calls = <<>>
          /\ responded = FALSE
          /\ pc \in {"load", "exited"}
          /\ pc = "exited" => exit_code \in 1..255
    /\ ~SomeMandatoryAbsent => (pc # "exited" /\ exit_code = 0)

\* the process exited on a parameter set to the empty string
C7_Witness ==
    /\ pc = "exited"
    /\ exit_code = 255
    /\ \E n \in Eleven : n \in DOMAIN env /\ env[n] = ""

CallOrder == <<"dns", "records", "add", "update", "del">>

\* C8: the calls are issued in the order dns, records, add, update, del, each at most
\* once, each only after the one before it has ended, and none after a failure
C8_CallsSequential ==
    /\ Len(calls) <= 2 * Len(CallOrder)
    /\ \A k \in 1..Len(calls) :
          /\ (k % 2 = 1) => calls[k] = <<CallOrder[(k + 1) \div 2], "start">>
          /\ (k % 2 = 0) => /\ calls[k][1] = CallOrder[k \div 2]
                            /\ calls[k][2] \in {"end", "fail"}
          /\ (calls[k][2] = "fail") => k = Len(calls)

\* a run whose five calls all ended
C8_Witness ==
    /\ pc = "done"
    /\ Len(calls) = 2 * Len(CallOrder)

HasRow(rows, name, rdata) ==
    \E k \in 1..Len(rows) : rows[k].name_texts = <<name>> /\ rows[k].rdata = rdata

\* C9: after a failed call the run is over: the failure is the last call, the
\* response is never sent, and the sheet keeps what the earlier calls did (the
\* inserted rows after a failed update or del, the rewritten rows after a failed
\* del); res.empty() is called only when all five calls have ended
C9_FailureStopsRun ==
    /\ \A k \in 1..Len(calls) : calls[k][2] = "fail" => (k = Len(calls) /\ pc = "failed")
    /\ pc = "failed" => responded = FALSE
    /\ responded => (\A api \in {"dns", "records", "add", "update", "del"} :
                        \E k \in 1..Len(calls) : calls[k] = <<api, "end">>)
    /\ LastCall \in {<<"dns", "fail">>, <<"records", "fail">>, <<"add", "fail">>} =>
          sheet = sheet0
    /\ LastCall \in {<<"update", "fail">>, <<"del", "fail">>} =>
          /\ Len(sheet) = Len(sheet0) + Len(records_to_insert)
          /\ \A k \in 1..Len(records_to_insert) :
                HasRow(sheet, records_to_insert[k].name, records_to_insert[k].rdata)
    /\ LastCall = <<"del", "fail">> =>
          \A k \in 1..Len(records_to_update) :
              HasOwnProperty(record_name_id_mappings, records_to_update[k].name) =>
                  HasRow(sheet, records_to_update[k].name, records_to_update[k].rdata)

\* the update call failed after the add call had inserted rows
C9_Witness ==
    /\ LastCall = <<"update", "fail">>
    /\ pc = "failed"
    /\ records_to_insert # <<>>
    /\ Len(sheet) > Len(sheet0)

RowNames(rows) == { rows[k].name_texts[1] : k \in 1..Len(rows) }

DistinctNames(rows) ==
    \A j \in 1..Len(rows) : \A k \in 1..Len(rows) :
        j # k => rows[j].name_texts # rows[k].name_texts

\* C10: after a run whose calls all ended over a sheet of pairwise distinct names,
\* the sheet's names are the normalized names, each row holds the merged rdata of
\* its name, and a next run over the same records would insert and delete nothing;
\* with two rows of one name, the earlier row is neither updated nor deleted
C10_Converges ==
    (pc = "done") =>
        /\ DistinctNames(sheet0) =>
              /\ RowNames(sheet) = { records_data[k].name : k \in 1..Len(records_data) }
              /\ \A k \in 1..Len(records_data) :
                    HasRow(sheet, records_data[k].name, records_data[k].rdata)
              /\ \A k \in 1..Len(sheet) :
                    \E j \in 1..Len(records_data) :
                        /\ records_data[j].name = sheet[k].name_texts[1]
                        /\ records_data[j].rdata = sheet[k].rdata
              /\ RecordsToInsert(process_dns_records(dns_records), NameIdMappings(sheet)) = <<>>
              /\ RecordsToDelete(process_dns_records(dns_records), NameIdMappings(sheet)) = <<>>
        /\ \A j \in 1..Len(sheet0) : \A k \in 1..Len(sheet0) :
              (j < k /\ sheet0[j].name_texts = sheet0[k].name_texts) =>
                  \E i \in 1..Len(sheet) : sheet[i] = sheet0[j]

=============================================================================
